---- MODULE Spec2Model ----
(***************************************************************************)
(* A model of jax/_src/scipy/fft.py: the type-II discrete cosine transform *)
(* and its inverse (dct, dctn, idct, idctn) computed through an FFT after   *)
(* an even/odd interleaving of the samples (Makhoul 1980).                  *)
(*                                                                         *)
(* Arithmetic.  The floating-point numbers of the program are modelled by  *)
(* exact numbers: elements of the cyclotomic field Q(zeta) with            *)
(* zeta = exp(2 pi i / 48).  That field holds every value the transforms   *)
(* produce from integer samples on an axis of length N with N | 12: the    *)
(* twiddle factors exp(-i pi k / (2 N)), the roots of unity of the FFT,    *)
(* and sqrt(2), sqrt(3), sqrt(6) of the orthonormal scaling.  "Equal up to *)
(* floating-point tolerance" is therefore modelled as exact equality.      *)
(* Element types (float32, complex64) are not modelled.                    *)
(***************************************************************************)
EXTENDS Integers, Sequences, FiniteSets, TLC

(***************************************************************************)
(* Exact numbers.  A number is [c, d]: the value (SUM_i c[i] zeta^i) / d   *)
(* with 16 integer coefficients c[0..15] (the powers zeta^0 .. zeta^15 are *)
(* a basis of the field) and d > 0, gcd(c, d) = 1, so that two numbers are *)
(* equal as values iff they are equal as records.  Products by a power of  *)
(* zeta pass through 24 working coefficients (zeta^24 = -1) which are      *)
(* folded back with zeta^16 = zeta^8 - 1.                                  *)
(***************************************************************************)
ZOrder == 48
ZHalf == ZOrder \div 2
ZDegree == ZOrder \div 3
ZFold == ZOrder \div 6
Coef == 0 .. (ZDegree - 1)

\* f itself, with every value of f computed (TLC evaluates f @@ g eagerly)
Eager(f) == f @@ << >>

\* the greatest k that divides d and every coefficient of c
Content(c, d) ==
  LET common == {k \in 1 .. d : d % k = 0 /\ \A i \in Coef : c[i] % k = 0}
  IN  CHOOSE k \in common : \A m \in common : m <= k

\* the number c / d in lowest terms
Canon(c, d) ==
  IF d = 1 THEN [c |-> Eager(c), d |-> 1]
  ELSE LET r == Eager(c)
           g == Content(r, d)
       IN  IF g = 1 THEN [c |-> r, d |-> d]
           ELSE [c |-> Eager([i \in Coef |-> r[i] \div g]), d |-> d \div g]

\* working coefficient s in 0 .. 23 of a number
Work(c, s) == IF s < ZDegree THEN c[s] ELSE 0

\* fold the working coefficients W(0) .. W(23) back onto the basis
Fold(W(_)) ==
  Eager([i \in Coef |-> W(i) + (IF i >= ZFold THEN W(i + ZFold) ELSE 0)
                             - (IF i < ZFold THEN W(i + ZDegree) ELSE 0)])

NumInt(k) == [c |-> Eager([i \in Coef |-> IF i = 0 THEN k ELSE 0]), d |-> 1]

NumAdd(a, b) ==
  IF a.d = b.d
  THEN Canon([i \in Coef |-> a.c[i] + b.c[i]], a.d)
  ELSE Canon([i \in Coef |-> a.c[i] * b.d + b.c[i] * a.d], a.d * b.d)

NumScale(a, k) == Canon([i \in Coef |-> k * a.c[i]], a.d)

NumDivInt(a, k) == Canon(a.c, a.d * k)

\* a * zeta^j: a rotation of the working coefficients, with zeta^24 = -1.
\* zeta^j is a unit, so the result is in lowest terms when a is.
NumMulZeta(a, j) ==
  IF j % ZOrder = 0 THEN a
  ELSE [c |-> Fold(LAMBDA i : LET s == (i - j) % ZOrder
                              IN  IF s < ZHalf THEN Work(a.c, s) ELSE -Work(a.c, s - ZHalf)),
        d |-> a.d]

\* complex conjugate: zeta^i -> zeta^(-i) = -zeta^(24 - i)
NumConj(a) ==
  [c |-> Fold(LAMBDA i : IF i = 0 THEN a.c[0] ELSE -Work(a.c, ZHalf - i)), d |-> a.d]

\* real part
NumReal(a) == NumDivInt(NumAdd(a, NumConj(a)), 2)

\* the largest r with r*r | m, and the square-free rest
SquarePart(m) == CHOOSE r \in 1 .. m : m % (r * r) = 0 /\ \A t \in (r + 1) .. m : m % (t * t) # 0
SquareFree(m) == m \div (SquarePart(m) * SquarePart(m))

\* sqrt(q) as a sum of powers of zeta: sqrt(2) = 2 cos(pi/4) = zeta^6 + zeta^-6,
\* sqrt(3) = 2 cos(pi/6) = zeta^4 + zeta^-4, sqrt(6) = sqrt(2) sqrt(3)
RootExps(q) ==
  LET e2 == ZOrder \div 8
      e3 == ZOrder \div 12
  IN  IF q = 1 THEN <<0>>
      ELSE IF q = 2 THEN <<e2, -e2>>
      ELSE IF q = 3 THEN <<e3, -e3>>
      ELSE <<e2 + e3, e2 - e3, e3 - e2, -e2 - e3>>

RECURSIVE MulExps(_, _)
MulExps(a, es) ==
  IF Len(es) = 1 THEN NumMulZeta(a, es[1])
  ELSE NumAdd(NumMulZeta(a, Head(es)), MulExps(a, Tail(es)))

\* the lengths whose transforms stay inside Q(zeta)
ExactLen(N) == N >= 1 /\ (ZOrder \div 4) % N = 0

\* a / sqrt(m), for m whose square-free part q is 1, 2, 3 or 6:
\* a * sqrt(q) / (r * q) with m = r * r * q
NumDivSqrt(a, m) ==
  NumDivInt(MulExps(a, RootExps(SquareFree(m))), SquarePart(m) * SquareFree(m))

(***************************************************************************)
(* Arrays.  An array is [shape, data]: shape is the sequence of axis       *)
(* lengths and data maps every index tuple (0-based entries) to an         *)
(* element.  Axis a of the program (0-based) is entry a + 1 of a tuple.    *)
(* Optional arguments: None is << >> and a given value v is << v >>.       *)
(***************************************************************************)
None == << >>
Some(v) == << v >>

ndim(x) == Len(x.shape)

RECURSIVE MaxOf(_)
MaxOf(sh) == IF sh = << >> THEN 0
             ELSE LET m == MaxOf(Tail(sh)) IN IF Head(sh) > m THEN Head(sh) ELSE m

Idx(sh) == {i \in [1 .. Len(sh) -> 0 .. (MaxOf(sh) - 1)] : \A a \in 1 .. Len(sh) : i[a] < sh[a]}

MkArray(sh, F(_)) == [shape |-> sh, data |-> Eager([i \in Idx(sh) |-> F(i)])]

\* an array of the shape of x, element i being F(i)
LikeArray(x, F(_)) == [shape |-> x.shape, data |-> Eager([i \in DOMAIN x.data |-> F(i)])]

At(i, axis, k) == [i EXCEPT ![axis + 1] = k]

\* elementwise map
MapArray(x, F(_)) == [shape |-> x.shape, data |-> Eager([i \in DOMAIN x.data |-> F(x.data[i])])]

\* lax.full
full(sh, v) == MkArray(sh, LAMBDA i : v)

\* lax.slice_in_dim(x, start, limit, stride, axis); an absent start is 0, an
\* absent limit the axis length
slice_in_dim(x, start, limit, stride, axis) ==
  LET n  == x.shape[axis + 1]
      st == IF start = None THEN 0 ELSE start[1]
      li == IF limit = None THEN n ELSE IF limit[1] > n THEN n ELSE limit[1]
      ln == IF li <= st THEN 0 ELSE (li - st + stride - 1) \div stride
  IN  MkArray([x.shape EXCEPT ![axis + 1] = ln],
              LAMBDA i : x.data[At(i, axis, st + stride * i[axis + 1])])

\* lax.rev(x, (axis,))
rev(x, axis) ==
  LikeArray(x, LAMBDA i : x.data[At(i, axis, x.shape[axis + 1] - 1 - i[axis + 1])])

\* lax.concatenate([a, b], axis)
concatenate(xs, axis) ==
  LET a  == xs[1]
      b  == xs[2]
      na == a.shape[axis + 1]
  IN  MkArray([a.shape EXCEPT ![axis + 1] = na + b.shape[axis + 1]],
              LAMBDA i : IF i[axis + 1] < na THEN a.data[i]
                         ELSE b.data[At(i, axis, i[axis + 1] - na)])

\* lax.pad(x, value, pads) with pads[a] = (0, high, 0): high > 0 appends that
\* many copies of value to axis a, high < 0 removes that many trailing elements
pad(x, value, pads) ==
  MkArray([a \in 1 .. ndim(x) |-> x.shape[a] + pads[a][2]],
          LAMBDA i : IF \A a \in 1 .. ndim(x) : i[a] < x.shape[a] THEN x.data[i] ELSE value)

\* jnp.zeros(shape)
zeros(sh) == full(sh, NumInt(0))

\* x.at[start::stride along axis].set(v)
at_set(x, start, stride, axis, v) ==
  LikeArray(x,
            LAMBDA i : LET k == i[axis + 1]
                       IN  IF k >= start /\ (k - start) % stride = 0
                              /\ (k - start) \div stride < v.shape[axis + 1]
                           THEN v.data[At(i, axis, (k - start) \div stride)]
                           ELSE x.data[i])

\* jnp.flip(x, axis) and jnp.roll(x, shift, axis)
flip(x, axis) == rev(x, axis)
roll(x, shift, axis) ==
  LikeArray(x, LAMBDA i : x.data[At(i, axis, (i[axis + 1] - shift) % x.shape[axis + 1])])

RECURSIVE SumTo(_, _)
SumTo(F(_), n) == IF n = 0 THEN F(0) ELSE NumAdd(SumTo(F, n - 1), F(n))

\* jnp.fft.fft(v, axis): V[k] = SUM_n v[n] exp(-2 pi i k n / N)
fft(v, axis) ==
  LET N == v.shape[axis + 1]
  IN  LikeArray(v,
                LAMBDA i : SumTo(LAMBDA n : NumMulZeta(v.data[At(i, axis, n)],
                                                       -((ZOrder \div N) * i[axis + 1] * n)),
                                 N - 1))

\* jnp.fft.ifft(V, axis): v[n] = (1/N) SUM_k V[k] exp(2 pi i k n / N)
ifft(V, axis) ==
  LET N == V.shape[axis + 1]
  IN  LikeArray(V,
                LAMBDA i : NumDivInt(SumTo(LAMBDA k : NumMulZeta(V.data[At(i, axis, k)],
                                                                 (ZOrder \div N) * i[axis + 1] * k),
                                           N - 1), N))

\* jnp.fft.fftn(v, axes) over two axes
fftn(v, axes) == fft(fft(v, axes[1]), axes[2])

\* jax._src.util.canonicalize_axis: rank + axis for a negative axis; an axis
\* outside [-rank, rank - 1] is an error, returned here as -1
canonicalize_axis(axis, num_dims) ==
  IF axis < -num_dims \/ axis >= num_dims THEN -1
  ELSE IF axis < 0 THEN axis + num_dims ELSE axis

(***************************************************************************)
(* The helpers of fft.py.                                                  *)
(***************************************************************************)
\* exp(-0.5j * pi * k / N) = zeta^e: the factor is given by its exponent e, and
\* multiplying by it is NumMulZeta(_, e), dividing by it NumMulZeta(_, -e)
_W4(N, k) == -(((ZOrder \div 4) * k) \div N)

_dct_interleave(x, axis) ==
  LET v0 == slice_in_dim(x, None, None, 2, axis)
      v1 == rev(slice_in_dim(x, Some(1), None, 2, axis), axis)
  IN  concatenate(<<v0, v1>>, axis)

\* A faulty variant of _dct_ortho_norm: the first element is scaled like the
\* others (factor 2 instead of 4).  The round trip of C1 must tell it apart.
_dct_ortho_norm_flat(out, axis) ==
  LET N == out.shape[axis + 1]
  IN  LikeArray(out, LAMBDA i : NumDivSqrt(out.data[i], 2 * N))

_dct_ortho_norm(out, axis) ==
  LET N == out.shape[axis + 1]
      factor == concatenate(<<full(<<1>>, 4), full(<<N - 1>>, 2)>>, 0)
  IN  LikeArray(out,
                LAMBDA i : NumDivSqrt(out.data[i], factor.data[<<i[axis + 1]>>] * N))

\* A faulty variant of _dct_deinterleave: the split point is floor(N / 2)
\* instead of ceil(N / 2).  The inverse law of C2 must tell it apart.
_dct_deinterleave_floor(x, axis) ==
  LET half == x.shape[axis + 1] \div 2
      v0   == slice_in_dim(x, None, Some(half), 1, axis)
      v1   == rev(slice_in_dim(x, Some(half), None, 1, axis), axis)
      out  == zeros(x.shape)
  IN  at_set(at_set(out, 0, 2, axis, v0), 1, 2, axis, v1)

_dct_deinterleave(x, axis) ==
  LET half == (x.shape[axis + 1] + 1) \div 2
      v0   == slice_in_dim(x, None, Some(half), 1, axis)
      v1   == rev(slice_in_dim(x, Some(half), None, 1, axis), axis)
      out  == zeros(x.shape)
  IN  at_set(at_set(out, 0, 2, axis, v0), 1, 2, axis, v1)

(***************************************************************************)
(* Results.  A call returns [err, x, log]: err is "" and x the returned    *)
(* array, or err names the exception raised and nothing is returned (x is  *)
(* the empty array).  log is the sequence of the steps the call executed,  *)
(* in order, each with the axes it acted on and the shape it produced; a   *)
(* raised exception keeps the log of the steps executed before it.         *)
(***************************************************************************)
NoArray == [shape |-> <<0>>, data |-> << >>]

Event(op, axes, sh) == [op |-> op, axes |-> axes, shape |-> sh]

Enter(x, fn, axes) == [err |-> "", x |-> x, log |-> <<Event(fn, axes, x.shape)>>]

Step(r, op, axes, newx) ==
  [err |-> "", x |-> newx, log |-> Append(r.log, Event(op, axes, newx.shape))]

Raise(r, e) == [err |-> e, x |-> NoArray, log |-> r.log]

\* the steps of a nested call follow the caller's
Join(r, sub) == [err |-> sub.err, x |-> sub.x, log |-> r.log \o sub.log]

\* dict(zip(axes, s)): the keys, and the value of a key (the last pair wins)
ZipLen(axes, s) == IF Len(axes) < Len(s) THEN Len(axes) ELSE Len(s)
InZip(axes, s, a) == \E j \in 1 .. ZipLen(axes, s) : axes[j] = a
ZipGet(axes, s, a) ==
  s[CHOOSE j \in 1 .. ZipLen(axes, s) :
      axes[j] = a /\ \A l \in (j + 1) .. ZipLen(axes, s) : axes[l] # a]

\* range(x.ndim)
AllAxes(x) == [a \in 1 .. ndim(x) |-> a - 1]

\* A faulty variant of Blocks: every axis is a block of its own.  The
\* composition rule of C10 must tell it apart.
RECURSIVE Blocks_single(_)
Blocks_single(axes) ==
  IF axes = << >> THEN << >> ELSE <<SubSeq(axes, 1, 1)>> \o Blocks_single(Tail(axes))

\* [axes[i:i+2] for i in range(0, len(axes), 2)]
RECURSIVE Blocks(_)
Blocks(axes) ==
  IF axes = << >> THEN << >>
  ELSE IF Len(axes) = 1 THEN <<axes>>
  ELSE <<SubSeq(axes, 1, 2)>> \o Blocks(SubSeq(axes, 3, Len(axes)))

(***************************************************************************)
(* The transforms of fft.py.                                               *)
(***************************************************************************)
\* A faulty variant of the type test: only types above 3 are refused.  The
\* error rule of C3 must tell it apart.
unsupported_above3(type) == type > 3

\* if type != 2: raise NotImplementedError
unsupported(type) == type # 2

\* A faulty variant of pad_axis: n elements are appended instead of
\* n - x.shape[axis].  The shape rule of C4 must tell it apart.
pad_axis_by(x, n, axis) ==
  pad(x, NumInt(0), [a \in 1 .. ndim(x) |-> <<0, IF a - 1 = axis THEN n ELSE 0, 0>>])

\* lax.pad(x, 0, [(0, n - x.shape[axis] if a == axis else 0, 0) for a in range(x.ndim)])
pad_axis(x, n, axis) ==
  pad(x, NumInt(0),
      [a \in 1 .. ndim(x) |-> <<0, IF a - 1 = axis THEN n - x.shape[a] ELSE 0, 0>>])

dct(x, type, n, axis, norm) ==
  LET r0 == Enter(x, "dct", <<axis>>)
  IN  IF unsupported(type) THEN Raise(r0, "NotImplementedError")
      ELSE
      LET ax == canonicalize_axis(axis, ndim(x))
          r1 == Step(r0, "canonicalize_axis", <<axis>>, x)
      IN  IF ax < 0 THEN Raise(r1, "ValueError")
          ELSE
          LET r2 == IF n # None THEN Step(r1, "pad", <<ax>>, pad_axis(x, n[1], ax)) ELSE r1
              N  == r2.x.shape[ax + 1]
              r3 == Step(r2, "interleave", <<ax>>, _dct_interleave(r2.x, ax))
              r4 == Step(r3, "fft", <<ax>>, fft(r3.x, ax))
              r5 == Step(r4, "twiddle", <<ax>>,
                         LikeArray(r4.x,
                                   LAMBDA i : NumScale(NumReal(NumMulZeta(r4.x.data[i],
                                                                          _W4(N, i[ax + 1]))), 2)))
          IN  IF norm = Some("ortho")
              THEN Step(r5, "ortho_norm", <<ax>>, _dct_ortho_norm(r5.x, ax))
              ELSE r5

_dct2(x, axes, norm) ==
  LET r0    == Enter(x, "_dct2", axes)
      axis1 == canonicalize_axis(axes[1], ndim(x))
      axis2 == canonicalize_axis(axes[2], ndim(x))
      r1    == Step(r0, "canonicalize_axis", axes, x)
  IN  IF axis1 < 0 \/ axis2 < 0 THEN Raise(r1, "ValueError")
      ELSE
      LET N1 == x.shape[axis1 + 1]
          N2 == x.shape[axis2 + 1]
          r2 == Step(r1, "interleave", <<axis1>>, _dct_interleave(x, axis1))
          r3 == Step(r2, "interleave", <<axis2>>, _dct_interleave(r2.x, axis2))
          r4 == Step(r3, "fft", <<axis1, axis2>>, fftn(r3.x, <<axis1, axis2>>))
          V  == r4.x
          Vr == roll(flip(V, axis2), 1, axis2)
          r5 == Step(r4, "twiddle", <<axis1, axis2>>,
                     LikeArray(V,
                               LAMBDA i :
                                 NumScale(NumReal(
                                   NumMulZeta(NumAdd(NumMulZeta(V.data[i], _W4(N2, i[axis2 + 1])),
                                                     NumMulZeta(Vr.data[i], _W4(N2, -i[axis2 + 1]))),
                                              _W4(N1, i[axis1 + 1]))), 2)))
      IN  IF norm = Some("ortho")
          THEN LET r6 == Step(r5, "ortho_norm", <<axis1>>, _dct_ortho_norm(r5.x, axis1))
               IN  Step(r6, "ortho_norm", <<axis2>>, _dct_ortho_norm(r6.x, axis2))
          ELSE r5

\* the combined pad of dctn and idctn: pads[a] is read with the axis numbers
\* as the caller wrote them
PadToS(r, s, axes) ==
  LET x == r.x
  IN  Step(r, "pad", axes,
           pad(x, NumInt(0),
               [a \in 1 .. ndim(x) |->
                  <<0, IF InZip(axes, s, a - 1) THEN ZipGet(axes, s, a - 1) - x.shape[a] ELSE 0, 0>>]))

RECURSIVE dctn(_, _, _, _, _)
RECURSIVE dctn_blocks(_, _, _)

\* for axes_block in ...: x = dctn(x, axes=axes_block, norm=norm)
dctn_blocks(r, blocks, norm) ==
  IF blocks = << >> \/ r.err # "" THEN r
  ELSE dctn_blocks(Join(r, dctn(r.x, 2, None, Some(Head(blocks)), norm)), Tail(blocks), norm)

dctn(x, type, s, axes, norm) ==
  LET axs == IF axes = None THEN AllAxes(x) ELSE axes[1]
      r0  == Enter(x, "dctn", axs)
  IN  IF unsupported(type) THEN Raise(r0, "NotImplementedError")
      ELSE IF Len(axs) = 1
      THEN Join(r0, dct(x, 2, IF s # None THEN Some(s[1][1]) ELSE None, axs[1], norm))
      ELSE
      LET r1 == IF s # None THEN PadToS(r0, s[1], axs) ELSE r0
      IN  IF Len(axs) = 2 THEN Join(r1, _dct2(r1.x, axs, norm))
          ELSE dctn_blocks(r1, Blocks(axs), norm)

\* A variant of idct_ortho_norm with two unconditional passes and a third one
\* when norm is unset.  The pass count of C9 must tell it apart.
idct_ortho_norm_thrice(r, axis, norm) ==
  LET r1 == IF norm = None
            THEN Step(r, "ortho_norm", <<axis>>, _dct_ortho_norm(r.x, axis))
            ELSE r
      r2 == Step(r1, "ortho_norm", <<axis>>, _dct_ortho_norm(r1.x, axis))
  IN  Step(r2, "ortho_norm", <<axis>>, _dct_ortho_norm(r2.x, axis))

\* if norm is None: x = _dct_ortho_norm(x, axis)
\* x = _dct_ortho_norm(x, axis)
idct_ortho_norm(r, axis, norm) ==
  LET r1 == IF norm = None
            THEN Step(r, "ortho_norm", <<axis>>, _dct_ortho_norm(r.x, axis))
            ELSE r
  IN  Step(r1, "ortho_norm", <<axis>>, _dct_ortho_norm(r1.x, axis))

idct(x, type, n, axis, norm) ==
  LET r0 == Enter(x, "idct", <<axis>>)
  IN  IF unsupported(type) THEN Raise(r0, "NotImplementedError")
      ELSE
      LET ax == canonicalize_axis(axis, ndim(x))
          r1 == Step(r0, "canonicalize_axis", <<axis>>, x)
      IN  IF ax < 0 THEN Raise(r1, "ValueError")
          ELSE
          LET r2 == IF n # None THEN Step(r1, "pad", <<ax>>, pad_axis(x, n[1], ax)) ELSE r1
              N  == r2.x.shape[ax + 1]
              r4 == idct_ortho_norm(r2, ax, norm)
              r5 == Step(r4, "twiddle", <<ax>>,
                         LikeArray(r4.x,
                                   LAMBDA i : NumScale(NumMulZeta(r4.x.data[i],
                                                                  -_W4(N, i[ax + 1])), 2 * N)))
              r6 == Step(r5, "ifft", <<ax>>, ifft(r5.x, ax))
          IN  Step(r6, "deinterleave", <<ax>>,
                   _dct_deinterleave(MapArray(r6.x, NumReal), ax))

\* for axis in axes: x = idct(x, axis=axis, norm=norm)
RECURSIVE idctn_axes(_, _, _)
idctn_axes(r, axes, norm) ==
  IF axes = << >> \/ r.err # "" THEN r
  ELSE idctn_axes(Join(r, idct(r.x, 2, None, Head(axes), norm)), Tail(axes), norm)

idctn(x, type, s, axes, norm) ==
  LET axs == IF axes = None THEN AllAxes(x) ELSE axes[1]
      r0  == Enter(x, "idctn", axs)
  IN  IF unsupported(type) THEN Raise(r0, "NotImplementedError")
      ELSE IF Len(axs) = 1
      THEN Join(r0, idct(x, 2, IF s # None THEN Some(s[1][1]) ELSE None, axs[1], norm))
      ELSE
      LET r1 == IF s # None THEN PadToS(r0, s[1], axs) ELSE r0
      IN  idctn_axes(r1, axs, norm)

(***************************************************************************)
(* The inputs.  Every transform is linear in x, so small sample values     *)
(* suffice.  Vectors carry every 0/1 content; the array of rank r >= 2 has *)
(* shape (2, 2, 1, .., 1) and carries the ramp 1, 2, 3, 4 in row-major     *)
(* order.  A behaviour is one call: an input array is chosen, then one     *)
(* function of the module is called on it with arguments of the sets below.*)
(***************************************************************************)
MaxLen == 4
MaxRank == 3

Values == {0, 1}
Types == {1, 2, 3}
Norms == {None, Some("ortho"), Some("backward")}

Vectors ==
  UNION {{[shape |-> <<n>>, data |-> [i \in Idx(<<n>>) |-> NumInt(d[i])]] :
            d \in [Idx(<<n>>) -> Values]} : n \in 1 .. MaxLen}

\* the row-major position of index tuple i in an array of shape sh
RECURSIVE Flat(_, _)
Flat(sh, i) ==
  IF sh = << >> THEN 0
  ELSE Flat(SubSeq(sh, 1, Len(sh) - 1), SubSeq(i, 1, Len(i) - 1)) * sh[Len(sh)] + i[Len(i)]

Ramp(sh) == [shape |-> sh, data |-> [i \in Idx(sh) |-> NumInt(1 + Flat(sh, i))]]

Grids == {Ramp([a \in 1 .. r |-> IF a <= 2 THEN 2 ELSE 1]) : r \in 2 .. MaxRank}

Arrays == Vectors \cup Grids

\* the arrays whose every axis has a length the exact arithmetic covers
Exact(x) == \A a \in 1 .. ndim(x) : ExactLen(x.shape[a])

\* target lengths n
Lens == {n \in 1 .. MaxLen : ExactLen(n)}
NArgs == {None} \cup {Some(n) : n \in Lens}

\* axis arguments: every spelling of every axis, and one invalid value on each side
AxisArgs(r) == (-(r + 1)) .. r

\* axes arguments: absent, or a run of up to MaxRank consecutive values of
\* the cycle 0, 1, .., r - 1, r (r is invalid) read forwards or backwards from
\* any start, the last axis r - 1 spelt either as r - 1 or as -1
Run(r, start, l, dir) == [j \in 1 .. l |-> (start + dir * (j - 1) + l * (r + 1)) % (r + 1)]
Spell(ax, r, neg) == [j \in DOMAIN ax |-> IF neg /\ ax[j] = r - 1 THEN -1 ELSE ax[j]]
AxesLists(r) ==
  {Spell(Run(r, start, l, dir), r, neg) :
     start \in 0 .. r, l \in 1 .. (IF MaxRank < r + 1 THEN MaxRank ELSE r + 1),
     dir \in {1, -1}, neg \in BOOLEAN}
AxesArgs(r) == {None} \cup {Some(ax) : ax \in AxesLists(r)}

\* s arguments for l listed axes: absent, or the lengths 1, 3, 1, 1, .. (pad
\* the second listed axis, cut the others to one element), one per axis, one
\* too few or one too many
SPattern(l) == [j \in 1 .. l |-> IF j = 2 THEN 3 ELSE 1]
SArgs(l) == {None} \cup {Some(SPattern(k)) : k \in {l - 1, l, l + 1} \ {0}}

NoCall == [fn |-> "", type |-> 2, n |-> None, axis |-> 0, s |-> None, axes |-> None, norm |-> None]
NoResult == [err |-> "", x |-> NoArray, log |-> << >>]

VARIABLES x, call, res, pc

vars == <<x, call, res, pc>>

Init ==
  /\ x \in Arrays
  /\ call = NoCall
  /\ res = NoResult
  /\ pc = "ready"

Returns(c, r) ==
  /\ pc = "ready"
  /\ pc' = "done"
  /\ call' = c
  /\ res' = r
  /\ UNCHANGED x

Interleave ==
  \E axis \in 0 .. (ndim(x) - 1) :
     Returns([NoCall EXCEPT !.fn = "_dct_interleave", !.axis = axis],
             Step(Enter(x, "_dct_interleave", <<axis>>), "interleave", <<axis>>,
                  _dct_interleave(x, axis)))

Deinterleave ==
  \E axis \in 0 .. (ndim(x) - 1) :
     Returns([NoCall EXCEPT !.fn = "_dct_deinterleave", !.axis = axis],
             Step(Enter(x, "_dct_deinterleave", <<axis>>), "deinterleave", <<axis>>,
                  _dct_deinterleave(x, axis)))

Dct ==
  /\ Exact(x)
  /\ \E type \in Types, n \in NArgs, axis \in AxisArgs(ndim(x)), norm \in Norms :
        Returns([NoCall EXCEPT !.fn = "dct", !.type = type, !.n = n, !.axis = axis, !.norm = norm],
                dct(x, type, n, axis, norm))

Idct ==
  /\ Exact(x)
  /\ \E type \in Types, n \in NArgs, axis \in AxisArgs(ndim(x)), norm \in Norms :
        Returns([NoCall EXCEPT !.fn = "idct", !.type = type, !.n = n, !.axis = axis, !.norm = norm],
                idct(x, type, n, axis, norm))

Dctn ==
  /\ Exact(x)
  /\ \E type \in Types, axes \in AxesArgs(ndim(x)), norm \in Norms :
        \E s \in SArgs(IF axes = None THEN ndim(x) ELSE Len(axes[1])) :
           Returns([NoCall EXCEPT !.fn = "dctn", !.type = type, !.s = s, !.axes = axes, !.norm = norm],
                   dctn(x, type, s, axes, norm))

Idctn ==
  /\ Exact(x)
  /\ \E type \in Types, axes \in AxesArgs(ndim(x)), norm \in Norms :
        \E s \in SArgs(IF axes = None THEN ndim(x) ELSE Len(axes[1])) :
           Returns([NoCall EXCEPT !.fn = "idctn", !.type = type, !.s = s, !.axes = axes, !.norm = norm],
                   idctn(x, type, s, axes, norm))

Next == Interleave \/ Deinterleave \/ Dct \/ Idct \/ Dctn \/ Idctn

Spec == Init /\ [][Next]_vars

(***************************************************************************)
(* Properties.  A state with pc = "done" holds one completed call: its     *)
(* input x, its arguments call and its outcome res.                        *)
(***************************************************************************)
Done(fn) == pc = "done" /\ call.fn = fn

Transforms == {"dct", "idct", "dctn", "idctn"}

\* the call c made on the array y
Apply(c, y) ==
  CASE c.fn = "dct"   -> dct(y, c.type, c.n, c.axis, c.norm)
    [] c.fn = "idct"  -> idct(y, c.type, c.n, c.axis, c.norm)
    [] c.fn = "dctn"  -> dctn(y, c.type, c.s, c.axes, c.norm)
    [] c.fn = "idctn" -> idctn(y, c.type, c.s, c.axes, c.norm)

\* the axes a dctn or idctn call lists
Listed(c, y) == IF c.axes = None THEN AllAxes(y) ELSE c.axes[1]

HasOp(log, ops) == \E j \in 1 .. Len(log) : log[j].op \in ops
CountOp(log, op) == Cardinality({j \in 1 .. Len(log) : log[j].op = op})

\* the steps that read or change the elements of the array
Stages == {"pad", "interleave", "fft", "twiddle", "ortho_norm", "ifft", "deinterleave"}

\* the array z is y with the positions along axis permuted
PermutedAlong(y, z, axis) ==
  LET N == y.shape[axis + 1]
  IN  /\ z.shape = y.shape
      /\ \E p \in [0 .. (N - 1) -> 0 .. (N - 1)] :
            /\ \A k, l \in 0 .. (N - 1) : p[k] = p[l] => k = l
            /\ \A i \in DOMAIN y.data : z.data[i] = y.data[At(i, axis, p[i[axis + 1]])]

\* C1: a dct without padding or truncation (n unset, or n equal to the axis
\* length), with norm unset or "ortho", is undone by idct with the same
\* arguments: idct(dct(x, norm), norm) = x, on every axis.
C1_RoundTrip ==
  (/\ Done("dct")
   /\ res.err = ""
   /\ call.norm \in {None, Some("ortho")}
   /\ \/ call.n = None
      \/ call.n = Some(x.shape[canonicalize_axis(call.axis, ndim(x)) + 1]))
  => LET back == idct(res.x, 2, call.n, call.axis, call.norm)
     IN  back.err = "" /\ back.x = x

\* C1's case: an orthonormal dct of a vector of length 3 that changed it
C1_Witness ==
  /\ Done("dct")
  /\ res.err = ""
  /\ call.norm = Some("ortho")
  /\ call.n = None
  /\ x.shape = <<3>>
  /\ res.x # x

\* C2: _dct_interleave and _dct_deinterleave keep the shape, permute the
\* positions along the axis, and undo each other in both orders, for every
\* axis length from 1 up, even or odd.
C2_InverseLaw ==
  /\ Done("_dct_interleave")
     => /\ PermutedAlong(x, res.x, call.axis)
        /\ _dct_deinterleave(res.x, call.axis) = x
  /\ Done("_dct_deinterleave")
     => /\ PermutedAlong(x, res.x, call.axis)
        /\ _dct_interleave(res.x, call.axis) = x

\* C2's case: a de-interleave of an odd-length vector that moved elements
C2_Witness ==
  /\ Done("_dct_deinterleave")
  /\ x.shape = <<3>>
  /\ res.x # x

\* C3: a call of dct, dctn, idct or idctn with a type other than 2 raises
\* NotImplementedError at once: nothing is returned and no step (axis
\* canonicalization, pad, FFT, ...) runs, whatever the other arguments.
C3_UnsupportedType ==
  (pc = "done" /\ call.fn \in Transforms /\ call.type # 2)
  => /\ res.err = "NotImplementedError"
     /\ res.x = NoArray
     /\ Len(res.log) = 1
     /\ res.log[1].op = call.fn

\* C3's case: an idctn call of type 3 whose other arguments are faulty too
C3_Witness ==
  /\ Done("idctn")
  /\ call.type = 3
  /\ call.axes # None
  /\ call.s # None
  /\ \E j \in 1 .. Len(call.axes[1]) : canonicalize_axis(call.axes[1][j], ndim(x)) < 0
  /\ Len(call.s[1]) # Len(call.axes[1])
  /\ res.err = "NotImplementedError"

\* y with the given axis brought to length n: the first elements kept,
\* zeros after them
Adapted(y, n, axis) ==
  MkArray([y.shape EXCEPT ![axis + 1] = n],
          LAMBDA i : IF i[axis + 1] < y.shape[axis + 1] THEN y.data[i] ELSE NumInt(0))

\* C4: in dct and idct a target length n brings the axis to length n before
\* any other stage: the leading elements are kept, zeros are appended when n
\* is larger, trailing elements are dropped when n is smaller, the other axes
\* are untouched; the result is the transform of that adapted array.
C4_ShapeAdaptation ==
  (pc = "done" /\ call.fn \in {"dct", "idct"} /\ res.err = "" /\ call.n # None)
  => LET ax == canonicalize_axis(call.axis, ndim(x))
         P  == Adapted(x, call.n[1], ax)
     IN  /\ CountOp(res.log, "pad") = 1
         /\ \A j, k \in 1 .. Len(res.log) :
               (res.log[j].op = "pad" /\ res.log[k].op \in Stages \ {"pad"}) => j < k
         /\ \A j \in 1 .. Len(res.log) : res.log[j].op = "pad" => res.log[j].shape = P.shape
         /\ res.x = Apply([call EXCEPT !.n = None], P).x

\* C4's case: a dct of a non-zero vector of length N with n = N + 2
C4_Witness ==
  /\ Done("dct")
  /\ res.err = ""
  /\ ndim(x) = 1
  /\ call.n = Some(x.shape[1] + 2)
  /\ x # zeros(x.shape)
  /\ res.x.shape = <<x.shape[1] + 2>>

\* C9 (as the code has it): idct runs _dct_ortho_norm along the transform axis
\* once unconditionally and once more only when norm is unset: 2 passes when
\* norm is unset, 1 pass when a norm is given.  On an axis of length 1 a pass
\* halves the element and the rest of idct doubles it.
C9_TwoPassesUnsetOneGiven ==
  (Done("idct") /\ res.err = "")
  => /\ CountOp(res.log, "ortho_norm") = (IF call.norm = None THEN 2 ELSE 1)
     /\ (x.shape = <<1>> /\ call.n = None)
        => res.x.data[<<0>>] = NumDivInt(x.data[<<0>>], IF call.norm = None THEN 2 ELSE 1)

\* C9's case: idct of the vector [1] with norm unset returns [1/2]
C9_Witness ==
  /\ Done("idct")
  /\ res.err = ""
  /\ call.norm = None
  /\ call.n = None
  /\ x.shape = <<1>>
  /\ x.data[<<0>>] = NumInt(1)
  /\ res.x.data[<<0>>] = NumDivInt(NumInt(1), 2)

\* C9 as stated: idct runs the pass twice unconditionally and a third time when
\* norm is unset: 3 passes when norm is unset, 2 when norm is "ortho".
C9_ThreePassesUnsetTwoOrtho ==
  (Done("idct") /\ res.err = "" /\ call.norm \in {None, Some("ortho")})
  => CountOp(res.log, "ortho_norm") = (IF call.norm = None THEN 3 ELSE 2)

\* the calls of the given kinds a log records, each as [op, axes], in order
RECURSIVE CallsIn(_, _)
CallsIn(log, ops) ==
  IF log = << >> THEN << >>
  ELSE (IF Head(log).op \in ops THEN <<[op |-> Head(log).op, axes |-> Head(log).axes]>> ELSE << >>)
       \o CallsIn(Tail(log), ops)

\* the block calls C10 expects of dctn for the listed axes: a two-axis
\* transform per consecutive pair, a dct for an odd last axis
PairCalls(axes) ==
  [j \in 1 .. ((Len(axes) + 1) \div 2) |->
     IF 2 * j <= Len(axes)
     THEN [op |-> "_dct2", axes |-> <<axes[2 * j - 1], axes[2 * j]>>]
     ELSE [op |-> "dct", axes |-> <<axes[Len(axes)]>>]]

\* how many steps of kind op acted on axis a (a in canonical form)
StepsOn(log, op, a) ==
  Cardinality({j \in 1 .. Len(log) :
                 log[j].op = op /\ \E k \in 1 .. Len(log[j].axes) : log[j].axes[k] = a})

\* y transformed by fn ("dct" or "idct") along each axis of axes in turn
RECURSIVE OneByOne(_, _, _, _)
OneByOne(fn, y, axes, norm) ==
  IF axes = << >> THEN y
  ELSE OneByOne(fn,
                Apply([NoCall EXCEPT !.fn = fn, !.axis = Head(axes), !.norm = norm], y).x,
                Tail(axes), norm)

\* C10: dctn over more than two axes transforms them as consecutive pairs in
\* the order given, an odd last axis by a dct of its own, each block on the
\* output of the one before: every listed axis gets exactly one FFT and, under
\* "ortho", exactly one normalization pass, an unlisted axis none; the result
\* is that of transforming the listed axes one by one.  idctn makes exactly
\* one idct call per listed axis, in the order given.
C10_Composition ==
  /\ (Done("dctn") /\ res.err = "" /\ Len(Listed(call, x)) > 2)
     => LET axes == Listed(call, x)
            on   == {canonicalize_axis(axes[j], ndim(x)) : j \in 1 .. Len(axes)}
        IN  /\ CallsIn(res.log, {"_dct2", "dct"}) = PairCalls(axes)
            /\ \A a \in 0 .. (ndim(x) - 1) :
                  /\ StepsOn(res.log, "fft", a) = (IF a \in on THEN 1 ELSE 0)
                  /\ StepsOn(res.log, "ortho_norm", a)
                       = (IF a \in on /\ call.norm = Some("ortho") THEN 1 ELSE 0)
            /\ call.s = None => res.x = OneByOne("dct", x, axes, call.norm)
  /\ (Done("idctn") /\ res.err = "")
     => LET axes == Listed(call, x)
        IN  /\ CallsIn(res.log, {"idct"}) = [j \in 1 .. Len(axes) |-> [op |-> "idct", axes |-> <<axes[j]>>]]
            /\ call.s = None => res.x = OneByOne("idct", x, axes, call.norm)

\* C10's case: an orthonormal dctn over the three axes 2, 1, 0 of an array
C10_Witness ==
  /\ Done("dctn")
  /\ res.err = ""
  /\ call.axes = Some(<<2, 1, 0>>)
  /\ call.norm = Some("ortho")
  /\ call.s = None
  /\ res.x # x

\* C5: in a dctn or idctn call with s and two or more axes every listed axis,
\* written as a non-negative or as a negative index, has its requested length
\* in the result, adapted by one pad before any transform; an unlisted axis
\* keeps its length.
C5_EveryListedAxisAdapted ==
  (/\ pc = "done"
   /\ call.fn \in {"dctn", "idctn"}
   /\ res.err = ""
   /\ call.s # None
   /\ Len(Listed(call, x)) >= 2
   /\ Len(call.s[1]) = Len(Listed(call, x)))
  => LET axes == Listed(call, x)
         on   == {canonicalize_axis(axes[j], ndim(x)) : j \in 1 .. Len(axes)}
     IN  /\ \A j \in 1 .. Len(axes) :
               res.x.shape[canonicalize_axis(axes[j], ndim(x)) + 1] = call.s[1][j]
         /\ \A a \in 0 .. (ndim(x) - 1) : a \notin on => res.x.shape[a + 1] = x.shape[a + 1]
         /\ CountOp(res.log, "pad") = 1
         /\ \A j, k \in 1 .. Len(res.log) :
               (res.log[j].op = "pad" /\ res.log[k].op \in Stages \ {"pad"}) => j < k

\* C6: a call of dct, dctn, idct or idctn that raises an error has run no FFT
\* and no inverse FFT before it.
C6_ErrorsPrecedeFFT ==
  (pc = "done" /\ call.fn \in Transforms /\ res.err # "")
  => ~HasOp(res.log, {"fft", "ifft"})

\* C7: in dct, dctn, idct and idctn a norm that is given but is not "ortho"
\* changes nothing: the call runs the same scaling passes and returns the same
\* result as the same call with norm unset.
C7_OtherNormIgnored ==
  (pc = "done" /\ call.fn \in Transforms /\ call.norm = Some("backward"))
  => LET unset == Apply([call EXCEPT !.norm = None], x)
     IN  /\ res.err = unset.err
         /\ res.x = unset.x
         /\ CountOp(res.log, "ortho_norm") = CountOp(unset.log, "ortho_norm")

\* C8: a dctn or idctn call whose s has not one entry per listed axis, or that
\* lists more axes than the array has, raises an error before any pad,
\* interleave or FFT stage.
C8_MismatchReported ==
  (/\ pc = "done"
   /\ call.fn \in {"dctn", "idctn"}
   /\ call.type = 2
   /\ call.s # None
   /\ \/ Len(call.s[1]) # Len(Listed(call, x))
      \/ Len(Listed(call, x)) > ndim(x))
  => res.err # "" /\ ~HasOp(res.log, Stages)

====
